---- MODULE Spec2Model ----
(***************************************************************************)
(* Project timing / state model of the survey backend.                     *)
(*                                                                         *)
(* The store is the `projects` table, with the `tracks_summary` and        *)
(* `track_points` tables; every route handler is a sequence of             *)
(* steps, one per database statement it awaits and one per JavaScript      *)
(* continuation that reads the clock (Date.now(), new Date()).  Requests   *)
(* run in slots; the auto-pause job has a slot of its own.                 *)
(*                                                                         *)
(* Time is in milliseconds, as in the code.  The clock advances by half a  *)
(* second or by six hours, so that both the truncation to whole seconds    *)
(* and the six-hour inactivity rule are exercised with the code's numbers. *)
(* The store and the server are taken to share one clock and one time      *)
(* zone; several clock reads within one continuation give one instant.     *)
(***************************************************************************)
EXTENDS Integers, Sequences, FiniteSets, TLC

VARIABLES
    now,        \* wall clock, ms
    projects,   \* the projects table: a sequence of rows, id = index
    req,        \* request slots: the handler each runs and where it stands
    job,        \* the auto-pause job's current sweep
    tracks,     \* the tracks_summary and track_points tables
    obs         \* history variable; each specification below says what it records

vars == <<now, projects, req, job, tracks, obs>>

----------------------------------------------------------------------------
\* Bounds of the model.

NumUsers == 2
MaxProjects == 2
NumRequests == 2
MaxTicks == 2
MaxOps == 4
SeqMaxOps == 3
MaxBeats == 2
RejMaxOps == 2
WpMaxOps == 3
MaxTracks == 2
TrMaxOps == 3

----------------------------------------------------------------------------
\* Program constants.

NULL == -1
MsPerSecond == 1000
SixHoursMs == 1000 * 60 * 60 * 6
ThresholdMs == 6 * 60 * 60 * 1000
TickMs == MsPerSecond \div 2

Users == 1..NumUsers
Slots == 1..NumRequests
ValidStatus == {"playing", "paused", "ended"}
StatusInputs == ValidStatus \cup {"bogus"}
NameInputs == {<<"a">>, <<"A", " ">>, <<"b">>, <<" ">>}

----------------------------------------------------------------------------
\* Strings, as far as createProject looks at them.

Lower(c) == IF c = "A" THEN "a" ELSE IF c = "B" THEN "b" ELSE c

ToLowerCase(str) == [k \in DOMAIN str |-> Lower(str[k])]

RECURSIVE TrimStart(_)
TrimStart(str) ==
    IF str # <<>> /\ Head(str) = " " THEN TrimStart(Tail(str)) ELSE str

RECURSIVE TrimEnd(_)
TrimEnd(str) ==
    IF str # <<>> /\ str[Len(str)] = " "
    THEN TrimEnd(SubSeq(str, 1, Len(str) - 1))
    ELSE str

Trim(str) == TrimEnd(TrimStart(str))

----------------------------------------------------------------------------
\* Rows and statements.

NewProject(name, user) ==
    [name |-> name, user_id |-> user, status |-> "paused", started_at |-> NULL,
     elapsed_seconds |-> 0, last_activity |-> NULL, auto_paused |-> FALSE]

\* The tracks_summary and track_points tables, empty: sequences of rows, id = index
NoTracks == [summary |-> <<>>, points |-> <<>>]

\* UPDATE projects SET <vals> WHERE id = <id>
SetColumns(row, vals) ==
    [c \in DOMAIN row |-> IF c \in DOMAIN vals THEN vals[c] ELSE row[c]]

UpdateProject(table, id, vals) ==
    IF id \in DOMAIN table
    THEN [table EXCEPT ![id] = SetColumns(table[id], vals)]
    ELSE table

\* SELECT * FROM projects WHERE ..., as a set of [id, row]; ids are the rows
\* that satisfy the WHERE clause
Select(table, ids) == {[id |-> i, row |-> table[i]] : i \in ids}

\* A faulty variant, to test that the properties notice it: the time banked so far is not added
ElapsedNowSegmentOnly(row, t) ==
    IF row.started_at # NULL
    THEN (t - row.started_at) \div MsPerSecond
    ELSE IF row.elapsed_seconds = NULL THEN 0 ELSE row.elapsed_seconds

\* let elapsed = p.elapsed_seconds || 0;
\* if (p.started_at) elapsed += Math.floor((Date.now() - started_at) / 1000);
ElapsedNow(row, t) ==
    LET elapsed == IF row.elapsed_seconds = NULL THEN 0 ELSE row.elapsed_seconds
    IN  IF row.started_at # NULL
        THEN elapsed + ((t - row.started_at) \div MsPerSecond)
        ELSE elapsed

PauseColumns(row, t) ==
    [status |-> "paused", started_at |-> NULL, elapsed_seconds |-> ElapsedNow(row, t)]

\* A faulty variant, to test that the properties notice it: the running segment is not banked
EndColumnsNotBanking(row, t) ==
    [status |-> "ended", started_at |-> NULL, elapsed_seconds |-> row.elapsed_seconds]

EndColumns(row, t) ==
    [status |-> "ended", started_at |-> NULL, elapsed_seconds |-> ElapsedNow(row, t)]

PlayColumns(t) ==
    [status |-> "playing", started_at |-> t, auto_paused |-> FALSE]

\* A faulty variant, to test that the properties notice it: the heartbeat does not begin a fresh segment
HeartbeatColumnsSameSegment(row, t) ==
    IF row.status # "playing"
    THEN [last_activity |-> t]
    ELSE [elapsed_seconds |-> ElapsedNow(row, t), last_activity |-> t]

\* A faulty variant, to test that the properties notice it: every heartbeat begins a segment
HeartbeatColumnsAnyStatus(row, t) ==
    [elapsed_seconds |-> ElapsedNow(row, t), started_at |-> t, last_activity |-> t]

HeartbeatColumns(row, t) ==
    IF row.status # "playing"
    THEN [last_activity |-> t]
    ELSE [elapsed_seconds |-> ElapsedNow(row, t), started_at |-> t, last_activity |-> t]

AutoPauseColumns(row, t) ==
    [status |-> "paused", started_at |-> NULL, elapsed_seconds |-> ElapsedNow(row, t),
     auto_paused |-> TRUE]

\* A faulty variant, to test that the properties notice it: the project is resumed
WaypointColumnsResuming(t) ==
    [last_activity |-> t, auto_paused |-> FALSE, status |-> "playing", started_at |-> t]

WaypointColumns(t) ==
    [last_activity |-> t, auto_paused |-> FALSE]

\* The inline inactivity test of GET /active.
ActiveStale(row, t) ==
    /\ row.last_activity # NULL
    /\ (t - row.last_activity) > SixHoursMs

\* A faulty variant, to test that the properties notice it: ">" written for "<"
SweepSelectsRecent(row, t) ==
    /\ row.status = "playing"
    /\ (row.last_activity = NULL \/ row.last_activity > t - ThresholdMs)
    /\ row.started_at # NULL

\* A faulty variant, to test that the properties notice it: the status and started_at conditions left out of the WHERE clause
SweepSelectsAnyStatus(row, t) ==
    row.last_activity = NULL \/ row.last_activity < t - ThresholdMs

\* The WHERE clause of the sweep's SELECT; thresholdDate = Date.now() - thresholdMs.
SweepSelects(row, t) ==
    /\ row.status = "playing"
    /\ (row.last_activity = NULL \/ row.last_activity < t - ThresholdMs)
    /\ row.started_at # NULL

----------------------------------------------------------------------------
\* Request slots.

Idle == [pc |-> "idle"]

Finish(s) == req' = [req EXCEPT ![s] = Idle]

Owned(i, u) == i \in DOMAIN projects /\ projects[i].user_id = u

ProjectIds == 1..MaxProjects

----------------------------------------------------------------------------
\* The clock.

\* The number of clock steps so far (both step sizes), to bound the run.
Ticks(t) == (t \div SixHoursMs) + ((t % SixHoursMs) \div TickMs)

TickShort ==
    /\ Ticks(now) < MaxTicks
    /\ now' = now + TickMs
    /\ UNCHANGED <<tracks, projects, req, job>>

TickLong ==
    /\ Ticks(now) < MaxTicks
    /\ now' = now + SixHoursMs
    /\ UNCHANGED <<tracks, projects, req, job>>

----------------------------------------------------------------------------
\* POST /api/projects

CreatesInFlight == Cardinality({s \in Slots : req[s].pc = "cr_insert"})

CreateSelectExisting(s, u, name) ==
    /\ req[s].pc = "idle"
    /\ Len(projects) + CreatesInFlight < MaxProjects
    /\ IF Trim(name) = <<>>
       THEN Finish(s)
       ELSE LET Same(i, row) == row.user_id = u
                                  /\ ToLowerCase(row.name) = ToLowerCase(Trim(name))
            IN  IF Select(projects, {j \in DOMAIN projects : Same(j, projects[j])}) # {}
                THEN Finish(s)
                ELSE req' = [req EXCEPT ![s] =
                                [pc |-> "cr_insert", user |-> u, name |-> name]]
    /\ UNCHANGED <<tracks, now, projects, job>>

CreateInsert(s) ==
    /\ req[s].pc = "cr_insert"
    /\ projects' = Append(projects, NewProject(Trim(req[s].name), req[s].user))
    /\ Finish(s)
    /\ UNCHANGED <<tracks, now, job>>

----------------------------------------------------------------------------
\* PUT /api/projects/:id/status

\* A faulty variant, to test that the properties notice it: "id = $3" written for "id != $3"
OtherPlayingSameId(u, i, j, row) ==
    row.user_id = u /\ row.status = "playing" /\ j = i

\* The WHERE clause of the SELECT of the user's other playing projects.
OtherPlaying(u, i, j, row) ==
    row.user_id = u /\ row.status = "playing" /\ j # i

StatusCall(s) == [user |-> req[s].user, id |-> req[s].id, status |-> req[s].status]

\* A faulty variant, to test that the properties notice it: "AND user_id = $2" left out
StatusErrorAnyOwner(table, u, i, status) ==
    IF status \notin ValidStatus THEN "Invalid status"
    ELSE IF i \notin DOMAIN table THEN "Project not found"
    ELSE "none"

\* The error the handler answers with before it changes anything, or "none"
StatusError(table, u, i, status) ==
    IF status \notin ValidStatus THEN "Invalid status"
    ELSE IF ~(i \in DOMAIN table /\ table[i].user_id = u) THEN "Project not found"
    ELSE "none"

StatusSelectProject(s, u, i, status) ==
    /\ req[s].pc = "idle"
    /\ IF StatusError(projects, u, i, status) # "none"
       THEN Finish(s)
       ELSE req' = [req EXCEPT ![s] =
                       [pc |-> "st_project", user |-> u, id |-> i, status |-> status,
                        project |-> projects[i]]]
    /\ UNCHANGED <<tracks, now, projects, job>>

StatusSelectOthers(s) ==
    /\ req[s].pc = "st_project"
    /\ req[s].status = "playing"
    /\ LET Other(j, row) == OtherPlaying(req[s].user, req[s].id, j, row)
       IN  req' = [req EXCEPT ![s] =
                      [pc |-> "st_others", rows |-> Select(projects, {j \in DOMAIN projects : Other(j, projects[j])})]
                          @@ StatusCall(s)]
    /\ UNCHANGED <<tracks, now, projects, job>>

StatusComputeOther(s) ==
    /\ req[s].pc = "st_others"
    /\ \E p \in req[s].rows :      \* the rows come in no stated order
          req' = [req EXCEPT ![s] =
                     [pc |-> "st_update_other", rows |-> req[s].rows \ {p},
                      upd |-> [id |-> p.id, vals |-> PauseColumns(p.row, now)]]
                         @@ StatusCall(s)]
    /\ UNCHANGED <<tracks, now, projects, job>>

StatusUpdateOther(s) ==
    /\ req[s].pc = "st_update_other"
    /\ projects' = UpdateProject(projects, req[s].upd.id, req[s].upd.vals)
    /\ req' = [req EXCEPT ![s] =
                  [pc |-> "st_others", rows |-> req[s].rows] @@ StatusCall(s)]
    /\ UNCHANGED <<tracks, now, job>>

StatusComputePlaying(s) ==
    /\ req[s].pc = "st_others"
    /\ req[s].rows = {}
    /\ req' = [req EXCEPT ![s] =
                  [pc |-> "st_update",
                   upd |-> [id |-> req[s].id, vals |-> PlayColumns(now)]]
                      @@ StatusCall(s)]
    /\ UNCHANGED <<tracks, now, projects, job>>

StatusComputePaused(s) ==
    /\ req[s].pc = "st_project"
    /\ req[s].status = "paused"
    /\ req' = [req EXCEPT ![s] =
                  [pc |-> "st_update",
                   upd |-> [id |-> req[s].id,
                            vals |-> PauseColumns(req[s].project, now)]]
                      @@ StatusCall(s)]
    /\ UNCHANGED <<tracks, now, projects, job>>

StatusComputeEnded(s) ==
    /\ req[s].pc = "st_project"
    /\ req[s].status = "ended"
    /\ req' = [req EXCEPT ![s] =
                  [pc |-> "st_update",
                   upd |-> [id |-> req[s].id,
                            vals |-> EndColumns(req[s].project, now)]]
                      @@ StatusCall(s)]
    /\ UNCHANGED <<tracks, now, projects, job>>

StatusUpdate(s) ==
    /\ req[s].pc = "st_update"
    /\ projects' = UpdateProject(projects, req[s].upd.id, req[s].upd.vals)
    /\ req' = [req EXCEPT ![s] = [pc |-> "st_updated"] @@ StatusCall(s)]
    /\ UNCHANGED <<tracks, now, job>>

StatusSelectUpdated(s) ==
    /\ req[s].pc = "st_updated"
    /\ Finish(s)
    /\ UNCHANGED <<tracks, now, projects, job>>

----------------------------------------------------------------------------
\* POST /api/projects/:id/heartbeat

\* The error the handler answers with before it changes anything, or "none"
HeartbeatError(table, u, i) ==
    IF ~(i \in DOMAIN table /\ table[i].user_id = u) THEN "Project not found"
    ELSE "none"

HeartbeatSelectProject(s, u, i) ==
    /\ req[s].pc = "idle"
    /\ IF HeartbeatError(projects, u, i) # "none"
       THEN Finish(s)
       ELSE req' = [req EXCEPT ![s] =
                       [pc |-> "hb_project", user |-> u, id |-> i,
                        project |-> projects[i]]]
    /\ UNCHANGED <<tracks, now, projects, job>>

HeartbeatCompute(s) ==
    /\ req[s].pc = "hb_project"
    /\ req' = [req EXCEPT ![s] =
                  [pc |-> "hb_update", user |-> req[s].user, id |-> req[s].id,
                   upd |-> [id |-> req[s].id,
                            vals |-> HeartbeatColumns(req[s].project, now)]]]
    /\ UNCHANGED <<tracks, now, projects, job>>

HeartbeatUpdate(s) ==
    /\ req[s].pc = "hb_update"
    /\ projects' = UpdateProject(projects, req[s].upd.id, req[s].upd.vals)
    /\ req' = [req EXCEPT ![s] =
                  [pc |-> "hb_updated", user |-> req[s].user, id |-> req[s].id]]
    /\ UNCHANGED <<tracks, now, job>>

HeartbeatSelectUpdated(s) ==
    /\ req[s].pc = "hb_updated"
    /\ Finish(s)
    /\ UNCHANGED <<tracks, now, projects, job>>

----------------------------------------------------------------------------
\* GET /api/projects/active

ActiveSelectPlaying(s, u) ==
    /\ req[s].pc = "idle"
    /\ LET Playing(i, row) == row.user_id = u /\ row.status = "playing"
       IN  IF Select(projects, {j \in DOMAIN projects : Playing(j, projects[j])}) = {}
           THEN Finish(s)
           ELSE \E p \in Select(projects, {j \in DOMAIN projects : Playing(j, projects[j])}) :    \* LIMIT 1, no ORDER BY
                   req' = [req EXCEPT ![s] =
                              [pc |-> "ga_project", user |-> u, id |-> p.id,
                               project |-> p.row]]
    /\ UNCHANGED <<tracks, now, projects, job>>

ActiveCheck(s) ==
    /\ req[s].pc = "ga_project"
    /\ IF ActiveStale(req[s].project, now)
       THEN req' = [req EXCEPT ![s] =
                       [pc |-> "ga_update", user |-> req[s].user, id |-> req[s].id,
                        upd |-> [id |-> req[s].id,
                                 vals |-> AutoPauseColumns(req[s].project, now)]]]
       ELSE req' = [req EXCEPT ![s] =
                       [pc |-> "ga_waypoints", user |-> req[s].user, id |-> req[s].id]]
    /\ UNCHANGED <<tracks, now, projects, job>>

ActiveUpdate(s) ==
    /\ req[s].pc = "ga_update"
    /\ projects' = UpdateProject(projects, req[s].upd.id, req[s].upd.vals)
    /\ req' = [req EXCEPT ![s] =
                  [pc |-> "ga_waypoints", user |-> req[s].user, id |-> req[s].id]]
    /\ UNCHANGED <<tracks, now, job>>

ActiveSelectWaypoints(s) ==
    /\ req[s].pc = "ga_waypoints"
    /\ Finish(s)
    /\ UNCHANGED <<tracks, now, projects, job>>

----------------
\* POST /api/waypoints with a project_id.  The waypoints table itself is not
\* part of the model: whether the name is already taken in the project is an
\* input.  The INSERT fails on the foreign key when the project does not exist.

WaypointCreate(u, i, nameTaken) ==
    /\ projects' = IF nameTaken \/ i \notin DOMAIN projects
                   THEN projects
                   ELSE UpdateProject(projects, i, WaypointColumns(now))
    /\ UNCHANGED <<tracks, now, req, job>>

----------------------------------------------------------------------------
\* startAutoPauseJob: doWork, run at start and on every timer tick.

SweepSelect ==
    /\ job.pc = "idle"
    /\ LET Eligible(i, row) == SweepSelects(row, now)
       IN  IF Select(projects, {j \in DOMAIN projects : Eligible(j, projects[j])}) = {}
           THEN job' = Idle
           ELSE job' = [pc |-> "sw_rows", rows |-> Select(projects, {j \in DOMAIN projects : Eligible(j, projects[j])})]
    /\ UNCHANGED <<tracks, now, projects, req>>

SweepCompute ==
    /\ job.pc = "sw_rows"
    /\ \E p \in job.rows :
          job' = [pc |-> "sw_update", rows |-> job.rows \ {p},
                  upd |-> [id |-> p.id, vals |-> AutoPauseColumns(p.row, now)]]
    /\ UNCHANGED <<tracks, now, projects, req>>

SweepUpdate ==
    /\ job.pc = "sw_update"
    /\ projects' = UpdateProject(projects, job.upd.id, job.upd.vals)
    /\ job' = IF job.rows = {} THEN Idle ELSE [pc |-> "sw_rows", rows |-> job.rows]
    /\ UNCHANGED <<tracks, now, req>>

\* The SELECT throws: the catch logs it and the run is over
SweepSelectThrows ==
    /\ job.pc = "idle"
    /\ job' = Idle
    /\ UNCHANGED <<tracks, now, projects, req>>

\* The UPDATE throws: the catch is outside the loop, so the run is over and
\* the rows not yet visited are not visited
SweepUpdateThrows ==
    /\ job.pc = "sw_update"
    /\ job' = Idle
    /\ UNCHANGED <<tracks, now, projects, req>>

----------------------------------------------------------------------------
\* GPS tracking: POST /start, POST /points/batch, PUT /end.
\* A point's location is a position on a line; the distance between two
\* points is the difference of their positions.

\* tracks_summary column defaults on INSERT (project_id, user_id, is_active)
NewSummary(project, user, t) ==
    [project_id |-> project, user_id |-> user, started_at |-> t, ended_at |-> NULL,
     total_distance |-> 0, total_duration |-> 0, point_count |-> 0, is_active |-> TRUE]

\* track_points row: recorded_at is left to its default, track_id is not set
NewPoint(project, user, pos, t) ==
    [project_id |-> project, user_id |-> user, location |-> pos, recorded_at |-> t,
     track_id |-> NULL]

\* req.body.points: missing, empty, or a list of positions
BatchInputs ==
    { [given |-> FALSE, points |-> <<>>], [given |-> TRUE, points |-> <<>>],
      [given |-> TRUE, points |-> <<1, 3>>] }

\* WHERE project_id = $1 AND user_id = $2 AND is_active = true
ActiveFor(row, project, user) ==
    row.project_id = project /\ row.user_id = user /\ row.is_active

ActiveIds(table, project, user) ==
    {k \in DOMAIN table : ActiveFor(table[k], project, user)}

\* UPDATE tracks_summary SET ... WHERE <ActiveFor>; vals[k] are the columns
\* set in row k
UpdateActive(table, project, user, vals) ==
    [k \in DOMAIN table |->
        IF ActiveFor(table[k], project, user)
        THEN SetColumns(table[k], vals[k]) ELSE table[k]]

\* The answer, and the end of the handler
Respond(s, code) == req' = [req EXCEPT ![s] = [pc |-> "idle", res |-> code]]

\* UNIQUE(project_id, user_id, started_at)
SummaryClash(table, row) ==
    \E k \in DOMAIN table :
        /\ table[k].project_id = row.project_id
        /\ table[k].user_id = row.user_id
        /\ table[k].started_at = row.started_at

StartsInFlight ==
    Cardinality({s \in Slots : req[s].pc \in {"ts_deactivate", "ts_insert"}})

StartSelectProject(s, u, i) ==
    /\ req[s].pc = "idle"
    /\ Len(tracks.summary) + StartsInFlight < MaxTracks
    /\ IF ~Owned(i, u)
       THEN Respond(s, 403)
       ELSE req' = [req EXCEPT ![s] = [pc |-> "ts_deactivate", user |-> u, id |-> i]]
    /\ UNCHANGED <<now, projects, job, tracks>>

StartDeactivate(s) ==
    /\ req[s].pc = "ts_deactivate"
    /\ LET Ended == [k \in DOMAIN tracks.summary |->
                        [is_active |-> FALSE, ended_at |-> now]]
       IN  tracks' = [tracks EXCEPT !.summary =
                         UpdateActive(@, req[s].id, req[s].user, Ended)]
    /\ req' = [req EXCEPT ![s].pc = "ts_insert"]
    /\ UNCHANGED <<now, projects, job>>

StartInsert(s) ==
    /\ req[s].pc = "ts_insert"
    /\ LET row == NewSummary(req[s].id, req[s].user, now)
       IN  IF SummaryClash(tracks.summary, row)
           THEN Respond(s, 500) /\ UNCHANGED tracks
           ELSE /\ tracks' = [tracks EXCEPT !.summary = Append(@, row)]
                /\ Respond(s, 200)
    /\ UNCHANGED <<now, projects, job>>

\* The columns the INSERT names
PointColumns ==
    <<"project_id", "user_id", "location", "accuracy", "elevation", "recorded_at">>

\* A faulty variant, to test that the properties notice it: a value for every column named
PointValuesForEveryColumn ==
    <<"$1", "$2", "ST_MakePoint($3, $4)", "$5", "$6", "CURRENT_TIMESTAMP">>

\* The expressions of one row of its VALUES list
PointValues == <<"$1", "$2", "ST_MakePoint($3, $4)", "$5", "$6">>

\* The store accepts an INSERT whose rows have one expression per column
\* named, and rejects the statement otherwise
InsertAccepted(columns, values) == Len(columns) = Len(values)

AppendCheck(s, u, i, batch) ==
    /\ req[s].pc = "idle"
    /\ IF ~batch.given \/ Len(batch.points) = 0
       THEN Respond(s, 400)
       ELSE IF ActiveIds(tracks.summary, i, u) = {}
       THEN Respond(s, 404)
       ELSE req' = [req EXCEPT ![s] =
                       [pc |-> "tp_insert", user |-> u, id |-> i, points |-> batch.points]]
    /\ UNCHANGED <<now, projects, job, tracks>>

\* The rows of the batch as the INSERT gives them to the store
BatchRows(project, user, points, t) ==
    [k \in DOMAIN points |-> NewPoint(project, user, points[k], t)]

AppendInsert(s) ==
    /\ req[s].pc = "tp_insert"
    /\ IF ~InsertAccepted(PointColumns, PointValues)
       THEN Respond(s, 500) /\ UNCHANGED tracks
       ELSE /\ tracks' = [tracks EXCEPT !.points =
                             @ \o BatchRows(req[s].id, req[s].user, req[s].points, now)]
            /\ req' = [req EXCEPT ![s].pc = "tp_count"]
    /\ UNCHANGED <<now, projects, job>>

AppendUpdateCount(s) ==
    /\ req[s].pc = "tp_count"
    /\ LET Counted == [k \in DOMAIN tracks.summary |->
                          [point_count |-> tracks.summary[k].point_count
                                              + Len(req[s].points)]]
       IN  tracks' = [tracks EXCEPT !.summary =
                         UpdateActive(@, req[s].id, req[s].user, Counted)]
    /\ Respond(s, 200)
    /\ UNCHANGED <<now, projects, job>>

\* The INSERT, and after an accepted INSERT the UPDATE of point_count
AppendWrite(s) == AppendInsert(s) \/ AppendUpdateCount(s)

RECURSIVE PathLength(_)
PathLength(path) ==
    IF Len(path) < 2 THEN 0
    ELSE (IF path[2].location >= path[1].location
          THEN path[2].location - path[1].location
          ELSE path[1].location - path[2].location) + PathLength(Tail(path))

RECURSIVE PointsWhere(_, _, _, _)
PointsWhere(points, project, user, since) ==
    IF points = <<>> THEN <<>>
    ELSE IF /\ Head(points).project_id = project
            /\ Head(points).user_id = user
            /\ Head(points).recorded_at >= since
         THEN <<Head(points)>> \o PointsWhere(Tail(points), project, user, since)
         ELSE PointsWhere(Tail(points), project, user, since)

\* calculate_track_distance: the points of the project and user recorded since
\* the active summary started, in recorded_at order (rows are inserted in that
\* order; rows of equal recorded_at are taken in id order); 0 with no active
\* summary
TrackDistance(table, project, user) ==
    IF ActiveIds(table.summary, project, user) = {} THEN 0
    ELSE LET k == CHOOSE k \in ActiveIds(table.summary, project, user) : TRUE
         IN  PathLength(PointsWhere(table.points, project, user,
                                    table.summary[k].started_at))

\* MIN(recorded_at), MAX(recorded_at) of all the project's points of the user
TrackDuration(table, project, user) ==
    LET mine == PointsWhere(table.points, project, user, 0)
    IN  IF mine = <<>> THEN 0
        ELSE (mine[Len(mine)].recorded_at - mine[1].recorded_at) \div MsPerSecond

\* The argument of the SUM in calculate_track_distance: ST_Distance(location,
\* LAG(location) OVER (ORDER BY recorded_at))
DistanceSummand == [function |-> "ST_Distance", windows |-> <<"LAG">>]

\* The store rejects a query whose aggregate has a window function call in
\* its argument ("aggregate function calls cannot contain window function
\* calls"); a plpgsql body is analysed when it runs, so the function is
\* created and every call of it raises
AggregateAccepted(summand) == summand.windows = <<>>

EndCall(s, u, i) ==
    /\ req[s].pc = "idle"
    /\ req' = [req EXCEPT ![s] = [pc |-> "te_distance", user |-> u, id |-> i]]
    /\ UNCHANGED <<now, projects, job, tracks>>

EndSelectDistance(s) ==
    /\ req[s].pc = "te_distance"
    /\ IF ~AggregateAccepted(DistanceSummand)
       THEN Respond(s, 500)
       ELSE req' = [req EXCEPT ![s] =
                       [pc |-> "te_times", user |-> req[s].user, id |-> req[s].id,
                        totalDistance |-> TrackDistance(tracks, req[s].id, req[s].user)]]
    /\ UNCHANGED <<now, projects, job, tracks>>

EndSelectTimes(s) ==
    /\ req[s].pc = "te_times"
    /\ req' = [req EXCEPT ![s] =
                  [pc |-> "te_update", user |-> req[s].user, id |-> req[s].id,
                   totalDistance |-> req[s].totalDistance,
                   totalDuration |-> TrackDuration(tracks, req[s].id, req[s].user)]]
    /\ UNCHANGED <<now, projects, job, tracks>>

EndUpdate(s) ==
    /\ req[s].pc = "te_update"
    /\ LET Ended == [k \in DOMAIN tracks.summary |->
                        [is_active |-> FALSE, ended_at |-> now,
                         total_distance |-> req[s].totalDistance,
                         total_duration |-> req[s].totalDuration]]
       IN  tracks' = [tracks EXCEPT !.summary =
                         UpdateActive(@, req[s].id, req[s].user, Ended)]
    /\ IF ActiveIds(tracks.summary, req[s].id, req[s].user) = {}
       THEN Respond(s, 404)
       ELSE Respond(s, 200)
    /\ UNCHANGED <<now, projects, job>>

\* The handler's three statements: the distance, the time range, the UPDATE
EndQueries(s) == EndSelectDistance(s) \/ EndSelectTimes(s) \/ EndUpdate(s)

----------------------------------------------------------------------------
\* GET /api/upload/:projectId/gpx.  Here a location has both coordinates, and a
\* document is the sequence of its lines, each line the tag and the values
\* written into it.

\* WHERE project_id = $1 AND user_id = $2, in the order the rows are stored
PointsOf(points, project, user) == PointsWhere(points, project, user, 0)

\* A faulty variant, to test that the properties notice it: no ORDER BY, the rows come as stored
AsStored(rows) == {rows}

\* ORDER BY recorded_at ASC: the rows in any order that is ascending in
\* recorded_at (rows of equal recorded_at come in either order)
OrderByRecordedAt(rows) ==
    { [k \in DOMAIN rows |-> rows[f[k]]] : f \in
        { g \in Permutations(DOMAIN rows) :
            \A k \in DOMAIN rows :
                k < Len(rows) => rows[g[k]].recorded_at <= rows[g[k + 1]].recorded_at } }

\* ST_Y(location::geometry) as lat, ST_X(location::geometry) as lng,
\* elevation, accuracy, recorded_at
GpxColumns(row) ==
    [lat |-> row.location.y, lng |-> row.location.x, elevation |-> row.elevation,
     accuracy |-> row.accuracy, recorded_at |-> row.recorded_at]

EscapeChar(c) ==
    IF c = "<" THEN <<"&", "l", "t", ";">>
    ELSE IF c = ">" THEN <<"&", "g", "t", ";">>
    ELSE IF c = "&" THEN <<"&", "a", "m", "p", ";">>
    ELSE IF c = "'" THEN <<"&", "a", "p", "o", "s", ";">>
    ELSE IF c = "\"" THEN <<"&", "q", "u", "o", "t", ";">>
    ELSE <<c>>

RECURSIVE escapeXml(_)
escapeXml(str) ==
    IF str = <<>> THEN <<>> ELSE EscapeChar(Head(str)) \o escapeXml(Tail(str))

\* The lines written for one point
TrkptLines(point) ==
    <<<<"trkpt", point.lat, point.lng>>>>
    \o (IF point.elevation # NULL THEN <<<<"ele", point.elevation>>>> ELSE <<>>)
    \o <<<<"time", point.recorded_at>>>>
    \o (IF point.accuracy # NULL THEN <<<<"hdop", point.accuracy>>>> ELSE <<>>)
    \o <<<<"/trkpt">>>>

RECURSIVE ForEachPoint(_)
ForEachPoint(points) ==
    IF points = <<>> THEN <<>>
    ELSE TrkptLines(Head(points)) \o ForEachPoint(Tail(points))

generateGPX(points, projectName) ==
    << <<"gpx">>, <<"metadata">>, <<"name", escapeXml(projectName) \o <<" ", "T", "r", "a", "c", "k">>>>,
       <<"time", points[1].recorded_at>>, <<"/metadata">>,
       <<"trk">>, <<"name", escapeXml(projectName)>>, <<"trkseg">> >>
    \o ForEachPoint(points)
    \o << <<"/trkseg">>, <<"/trk">>, <<"/gpx">> >>

ExportSelectPoints(s, u, i) ==
    /\ req[s].pc = "idle"
    /\ \E rows \in OrderByRecordedAt(PointsOf(tracks.points, i, u)) :
          req' = [req EXCEPT ![s] =
                     [pc |-> "gx_project", user |-> u, id |-> i,
                      points |-> [k \in DOMAIN rows |-> GpxColumns(rows[k])]]]
    /\ UNCHANGED <<now, projects, job, tracks>>

\* projectResult.rows[0]?.name || `Project ${projectId}`
ExportSelectProject(s) ==
    /\ req[s].pc = "gx_project"
    /\ req' = [req EXCEPT ![s] =
                  [pc |-> "gx_respond", user |-> req[s].user, id |-> req[s].id,
                   points |-> req[s].points,
                   projectName |-> IF req[s].id \in DOMAIN projects
                                   THEN projects[req[s].id].name
                                   ELSE <<"P", "r", "o", "j", "e", "c", "t", " ", req[s].id>>]]
    /\ UNCHANGED <<now, projects, job, tracks>>

ExportRespond(s) ==
    /\ req[s].pc = "gx_respond"
    /\ req' = [req EXCEPT ![s] =
                  IF Len(req[s].points) = 0
                  THEN [pc |-> "idle", res |-> 404]
                  ELSE [pc |-> "idle", res |-> 200,
                        body |-> generateGPX(req[s].points, req[s].projectName)]]
    /\ UNCHANGED <<now, projects, job, tracks>>

----------------------------------------------------------------------------------------------------------------------------------------
\* The server: any interleaving of the handlers' steps, the job's steps and
\* the clock.  obs counts the operations started, to bound the run.

Init ==
    /\ now = 0
    /\ tracks = NoTracks
    /\ projects = <<>>
    /\ req = [s \in Slots |-> Idle]
    /\ job = Idle
    /\ obs = 0

Started(A) == A /\ obs < MaxOps /\ obs' = obs + 1

Continued(A) == A /\ UNCHANGED obs

Next ==
    \/ \E s \in Slots, u \in Users, name \in NameInputs :
          Started(CreateSelectExisting(s, u, name))
    \/ \E s \in Slots : Continued(CreateInsert(s))
    \/ \E s \in Slots, u \in Users, i \in ProjectIds, status \in StatusInputs :
          Started(StatusSelectProject(s, u, i, status))
    \/ \E s \in Slots : Continued(StatusSelectOthers(s))
    \/ \E s \in Slots : Continued(StatusComputeOther(s))
    \/ \E s \in Slots : Continued(StatusUpdateOther(s))
    \/ \E s \in Slots : Continued(StatusComputePlaying(s))
    \/ \E s \in Slots : Continued(StatusComputePaused(s))
    \/ \E s \in Slots : Continued(StatusComputeEnded(s))
    \/ \E s \in Slots : Continued(StatusUpdate(s))
    \/ \E s \in Slots : Continued(StatusSelectUpdated(s))
    \/ \E s \in Slots, u \in Users, i \in ProjectIds :
          Started(HeartbeatSelectProject(s, u, i))
    \/ \E s \in Slots : Continued(HeartbeatCompute(s))
    \/ \E s \in Slots : Continued(HeartbeatUpdate(s))
    \/ \E s \in Slots : Continued(HeartbeatSelectUpdated(s))
    \/ \E s \in Slots, u \in Users : Started(ActiveSelectPlaying(s, u))
    \/ \E s \in Slots : Continued(ActiveCheck(s))
    \/ \E s \in Slots : Continued(ActiveUpdate(s))
    \/ \E s \in Slots : Continued(ActiveSelectWaypoints(s))
    \/ \E u \in Users, i \in ProjectIds, nameTaken \in BOOLEAN :
          Started(WaypointCreate(u, i, nameTaken))
    \/ Started(SweepSelect)
    \/ Continued(SweepCompute)
    \/ Continued(SweepUpdate)
    \/ Continued(TickShort)
    \/ Continued(TickLong)

Spec == Init /\ [][Next]_vars

----------------------------------------------------------------------------
\* C1: in every reachable state, under any interleaving of the handlers'
\* steps, a project's started_at is non-null if and only if its status is
\* playing.
StartedIffPlaying ==
    \A i \in DOMAIN projects :
        (projects[i].started_at # NULL) <=> (projects[i].status = "playing")

\* C2: in every reachable state every user has at most one project whose
\* status is playing, also when two requests to play run concurrently.
PlayingOf(u) ==
    {i \in DOMAIN projects : projects[i].user_id = u /\ projects[i].status = "playing"}

AtMostOnePlaying == \A u \in Users : Cardinality(PlayingOf(u)) <= 1

\* C3: no step of any operation decreases a project's elapsed_seconds, also
\* when several requests on the project interleave.
ElapsedNeverDecreases ==
    [][\A i \in DOMAIN projects :
          projects'[i].elapsed_seconds >= projects[i].elapsed_seconds]_vars

----------------------------------------------------------------------------
\* Requests served one at a time: a handler or a sweep starts only when no
\* other is in progress; the clock may advance between any two steps.
\*
\* obs records, for the operation in progress, the table and the clock at its
\* start (pre, t0), and for the sweeps what C10 speaks of: the ids the last
\* sweep selected (selected), and, when the operation before it was a sweep
\* too, the ids that one paused and the table it left (paused, left).

Times ==
    {k * TickMs + m * SixHoursMs : k \in 0..MaxTicks, m \in 0..MaxTicks}

OwnerOf(i) == IF i <= 2 THEN 1 ELSE 2

NameOf(i) == IF i = 2 THEN <<"b">> ELSE <<"a">>

InitialProjects == [i \in 1..MaxProjects |-> NewProject(NameOf(i), OwnerOf(i))]

NoSweep == [selected |-> {}, paused |-> {}, left |-> <<>>, consecutive |-> FALSE]

SeqInit ==
    /\ now = 0
    /\ tracks = NoTracks
    /\ projects = InitialProjects
    /\ req = [s \in Slots |-> Idle]
    /\ job = Idle
    /\ obs = [ops |-> 0, pre |-> <<>>, t0 |-> 0, last |-> "none", sweep |-> NoSweep]

AllIdle == job.pc = "idle" /\ \A s \in Slots : req[s].pc = "idle"

\* A request starts.
SeqStarted(A) ==
    /\ AllIdle
    /\ obs.ops < SeqMaxOps
    /\ A
    /\ obs' = [ops |-> obs.ops + 1,
               pre |-> IF req'[1].pc = "idle" THEN <<>> ELSE projects,
               t0 |-> IF req'[1].pc = "idle" THEN 0 ELSE now,
               last |-> "request", sweep |-> NoSweep]

\* A later step of it; the last one forgets pre and t0.
SeqContinued(A) ==
    /\ A
    /\ obs' = IF job'.pc = "idle" /\ \A s \in Slots : req'[s].pc = "idle"
              THEN [obs EXCEPT !.pre = <<>>, !.t0 = 0]
              ELSE obs

\* A sweep starts: doWork's SELECT.
SeqSweepStarted(A) ==
    /\ AllIdle
    /\ obs.ops < SeqMaxOps
    /\ A
    /\ obs' = [ops |-> obs.ops + 1, pre |-> <<>>, t0 |-> 0, last |-> "sweep",
               sweep |-> [selected |-> IF job'.pc = "idle" THEN {}
                                       ELSE {p.id : p \in job'.rows},
                          paused |-> IF obs.last = "sweep" THEN obs.sweep.selected
                                     ELSE {},
                          left |-> IF obs.last = "sweep" THEN projects ELSE <<>>,
                          consecutive |-> obs.last = "sweep"]]

SeqNext ==
    \/ \E u \in Users, i \in ProjectIds, status \in StatusInputs :
          SeqStarted(StatusSelectProject(1, u, i, status))
    \/ SeqContinued(StatusSelectOthers(1))
    \/ SeqContinued(StatusComputeOther(1))
    \/ SeqContinued(StatusUpdateOther(1))
    \/ SeqContinued(StatusComputePlaying(1))
    \/ SeqContinued(StatusComputePaused(1))
    \/ SeqContinued(StatusComputeEnded(1))
    \/ SeqContinued(StatusUpdate(1))
    \/ SeqContinued(StatusSelectUpdated(1))
    \/ \E u \in Users, i \in ProjectIds : SeqStarted(HeartbeatSelectProject(1, u, i))
    \/ SeqContinued(HeartbeatCompute(1))
    \/ SeqContinued(HeartbeatUpdate(1))
    \/ SeqContinued(HeartbeatSelectUpdated(1))
    \/ \E u \in Users : SeqStarted(ActiveSelectPlaying(1, u))
    \/ SeqContinued(ActiveCheck(1))
    \/ SeqContinued(ActiveUpdate(1))
    \/ SeqContinued(ActiveSelectWaypoints(1))
    \/ \E u \in Users, i \in ProjectIds, nameTaken \in BOOLEAN :
          SeqStarted(WaypointCreate(u, i, nameTaken))
    \/ SeqSweepStarted(SweepSelect)
    \/ SeqContinued(SweepCompute)
    \/ SeqContinued(SweepUpdate)
    \/ Continued(TickShort)
    \/ Continued(TickLong)

SpecSeq == SeqInit /\ [][SeqNext]_vars

\* C6: ended is terminal: once a project's status is ended, no step of any
\* operation changes its status, started_at or elapsed_seconds.
EndedIsTerminal ==
    [][\A i \in DOMAIN projects :
          projects[i].status = "ended" =>
              /\ projects'[i].status = "ended"
              /\ projects'[i].started_at = projects[i].started_at
              /\ projects'[i].elapsed_seconds = projects[i].elapsed_seconds]_vars

\* C8 (P2): when a request to play project B of user u has done its updates,
\* every other project of u that was playing when the request began is
\* paused, with started_at null and elapsed_seconds increased by the whole
\* seconds it had been playing up to an instant of this request; B is
\* playing, started at an instant of this request, with auto_paused false
\* and last_activity as before; and no other project of u is playing.
PlayPausesOthers ==
    \A s \in Slots :
        (req[s].pc = "st_updated" /\ req[s].status = "playing") =>
            LET u == req[s].user
                B == req[s].id
                pre == obs.pre
                During == {t \in Times : obs.t0 <= t /\ t <= now}
            IN  /\ \A A \in DOMAIN pre :
                      (A # B /\ pre[A].user_id = u /\ pre[A].status = "playing") =>
                          /\ projects[A].status = "paused"
                          /\ projects[A].started_at = NULL
                          /\ \E t \in During :
                                projects[A].elapsed_seconds =
                                    pre[A].elapsed_seconds
                                        + ((t - pre[A].started_at) \div MsPerSecond)
                /\ projects[B].status = "playing"
                /\ projects[B].started_at \in During
                /\ projects[B].auto_paused = FALSE
                /\ projects[B].last_activity = pre[B].last_activity
                /\ PlayingOf(u) = {B}

\* C8's case: a request to play B has paused a project that was playing and
\* banked time for it.
PlayPausedAnother ==
    \E s \in Slots :
        /\ req[s].pc = "st_updated"
        /\ req[s].status = "playing"
        /\ \E A \in DOMAIN obs.pre :
              /\ A # req[s].id
              /\ obs.pre[A].user_id = req[s].user
              /\ obs.pre[A].status = "playing"
              /\ projects[A].elapsed_seconds > obs.pre[A].elapsed_seconds

\* C10 (P4): when a sweep runs right after another sweep, every project the
\* first one selected was paused by it (auto_paused set), is not selected by
\* the second one, and keeps the status, started_at, elapsed_seconds and
\* auto_paused the first one left.
SecondSweepIsNoOp ==
    obs.sweep.consecutive =>
        \A i \in obs.sweep.paused :
            LET left == obs.sweep.left[i]
            IN  /\ left.status = "paused"
                /\ left.auto_paused
                /\ i \notin obs.sweep.selected
                /\ projects[i].status = left.status
                /\ projects[i].started_at = left.started_at
                /\ projects[i].elapsed_seconds = left.elapsed_seconds
                /\ projects[i].auto_paused = left.auto_paused

\* C10's case: a second sweep has run right after one that paused a project
\* with time to bank.
SweptTwice ==
    /\ obs.sweep.consecutive
    /\ job.pc = "idle"
    /\ \E i \in obs.sweep.paused : projects[i].elapsed_seconds > 0

----------------------------------------------------------------------------
\* One project's sessions: its owner plays, sends heartbeats while playing,
\* and pauses, one request at a time, the clock advancing between any two
\* steps.  The project starts fresh.
\*
\* obs records what a client with a stopwatch would: the instant the current
\* playing interval began (since), the whole seconds of every closed interval
\* (segment, and their sum played), whether any heartbeat was ever sent
\* (beaten), and for the current session the row right after the play
\* (base), the number of heartbeats (beats), the row before and the instant
\* of the last heartbeat (before, beat), the instant of the pause (at), and
\* whether every instant of the session was a whole second (whole).

\* The project the owner works on: the first row of the table.
Session == CHOOSE i \in ProjectIds : \A j \in ProjectIds : i <= j

Owner == OwnerOf(Session)

IsWhole(t) == t % MsPerSecond = 0

SessInit ==
    /\ now = 0
    /\ tracks = NoTracks
    /\ projects = InitialProjects
    /\ req = [s \in Slots |-> Idle]
    /\ job = Idle
    /\ obs = [phase |-> "paused", since |-> 0, segment |-> 0, played |-> 0,
              beaten |-> FALSE, base |-> <<>>, beats |-> 0, before |-> <<>>,
              beat |-> 0, at |-> 0, whole |-> TRUE]

Sess(A, o) == A /\ obs' = o

SessNext ==
    \/ /\ obs.phase = "paused"
       /\ Sess(StatusSelectProject(1, Owner, Session, "playing"),
               [obs EXCEPT !.phase = "to play"])
    \/ Sess(StatusSelectOthers(1), obs)
    \/ Sess(StatusComputePlaying(1),
            [obs EXCEPT !.since = now, !.whole = IsWhole(now), !.beats = 0])
    \/ /\ obs.phase = "playing"
       /\ Sess(StatusSelectProject(1, Owner, Session, "paused"),
               [obs EXCEPT !.phase = "to pause"])
    \/ Sess(StatusComputePaused(1),
            [obs EXCEPT !.segment = (now - obs.since) \div MsPerSecond,
                        !.played = @ + ((now - obs.since) \div MsPerSecond),
                        !.at = now, !.whole = @ /\ IsWhole(now)])
    \/ Sess(StatusUpdate(1),
            IF obs.phase = "to play"
            THEN [obs EXCEPT !.base = projects'[Session]]
            ELSE obs)
    \/ Sess(StatusSelectUpdated(1),
            [obs EXCEPT !.phase = IF @ = "to play" THEN "playing" ELSE "paused"])
    \/ /\ obs.phase = "playing"
       /\ obs.beats < MaxBeats
       /\ Sess(HeartbeatSelectProject(1, Owner, Session),
               [obs EXCEPT !.phase = "to beat", !.before = projects[Session]])
    \/ Sess(HeartbeatCompute(1),
            [obs EXCEPT !.beat = now, !.whole = @ /\ IsWhole(now),
                        !.beats = @ + 1, !.beaten = TRUE])
    \/ Sess(HeartbeatUpdate(1), [obs EXCEPT !.phase = "beat"])
    \/ Sess(HeartbeatSelectUpdated(1), [obs EXCEPT !.phase = "playing"])
    \/ Sess(TickShort, obs)
    \/ Sess(TickLong, obs)

SpecSession == SessInit /\ [][SessNext]_vars

\* C7 (P1): after every pause of a sequence play, pause, play, pause, ... on a
\* fresh project, elapsed_seconds is the sum of the whole seconds of the
\* playing intervals so far.
ElapsedIsSumOfSegments ==
    (obs.phase = "paused" /\ ~obs.beaten) =>
        /\ projects[Session].status = "paused"
        /\ projects[Session].elapsed_seconds = obs.played

\* C7's case: a second pause, after two playing intervals of at least a second.
PausedTwice ==
    /\ obs.phase = "paused"
    /\ ~obs.beaten
    /\ obs.segment > 0
    /\ obs.played > obs.segment

\* C9 (P3): a pause after any number of heartbeats in one playing session
\* leaves the elapsed_seconds that a pause at the same instant leaves when no
\* heartbeat was sent, provided all the instants are whole seconds; and a
\* heartbeat on the playing project banks the whole seconds since started_at
\* into elapsed_seconds, sets started_at and last_activity to its instant and
\* leaves the rest of the row, the status included, as it was.
HeartbeatsBankTheSame ==
    /\ (obs.phase = "paused" /\ obs.base # <<>> /\ obs.whole) =>
          projects[Session].elapsed_seconds =
              obs.base.elapsed_seconds
                  + ((obs.at - obs.base.started_at) \div MsPerSecond)
    /\ obs.phase = "beat" =>
          projects[Session] =
              [obs.before EXCEPT
                  !.elapsed_seconds = @ + ((obs.beat - obs.before.started_at)
                                              \div MsPerSecond),
                  !.started_at = obs.beat,
                  !.last_activity = obs.beat]

\* C9's case: a pause at a whole second, after a heartbeat sent at a whole
\* second strictly inside the session.
PausedAfterHeartbeat ==
    /\ obs.phase = "paused"
    /\ obs.base # <<>>
    /\ obs.whole
    /\ obs.beats >= 1
    /\ obs.base.started_at < obs.beat
    /\ obs.beat < obs.at

----------------------------------------------------------------------------
\* Operations racing on one playing project: the owner's heartbeat, the
\* owner's pause or end, and the job's sweep, each run once, their steps
\* interleaved, the clock advancing between any two steps.  The project was
\* played at instant 0 and may have had a heartbeat at that instant.
\*
\* obs records, for each of the three, whether it has run ("no", "run",
\* "done"), the instant it began (t0) and the instant it finished (t1), and
\* the row as it was before any of them began (row).

PlayedRows ==
    { SetColumns(NewProject(NameOf(Session), Owner), PlayColumns(0)),
      SetColumns(SetColumns(NewProject(NameOf(Session), Owner), PlayColumns(0)),
                 [last_activity |-> 0]) }

NotRun == [run |-> "no", t0 |-> 0, t1 |-> 0]

RaceInit ==
    /\ now = 0
    /\ tracks = NoTracks
    /\ \E row \in PlayedRows :
          /\ projects = [InitialProjects EXCEPT ![Session] = row]
          /\ obs = [hb |-> NotRun, st |-> NotRun, sw |-> NotRun,
                    status |-> "none", row |-> row]
    /\ req = [s \in Slots |-> Idle]
    /\ job = Idle

Race(A, o) == A /\ obs' = o

Begun == [run |-> "run", t0 |-> now, t1 |-> 0]

RaceNext ==
    \/ /\ obs.hb.run = "no"
       /\ Race(HeartbeatSelectProject(1, Owner, Session), [obs EXCEPT !.hb = Begun])
    \/ Race(HeartbeatCompute(1), obs)
    \/ Race(HeartbeatUpdate(1), obs)
    \/ Race(HeartbeatSelectUpdated(1),
            [obs EXCEPT !.hb.run = "done", !.hb.t1 = now])
    \/ /\ obs.st.run = "no"
       /\ \E status \in {"paused", "ended"} :
             Race(StatusSelectProject(2, Owner, Session, status),
                  [obs EXCEPT !.st = Begun, !.status = status])
    \/ Race(StatusComputePaused(2), obs)
    \/ Race(StatusComputeEnded(2), obs)
    \/ Race(StatusUpdate(2), obs)
    \/ Race(StatusSelectUpdated(2),
            [obs EXCEPT !.st.run = "done", !.st.t1 = now])
    \/ /\ obs.sw.run = "no"
       /\ Race(SweepSelect,
               [obs EXCEPT !.sw = IF job'.pc = "idle"
                                  THEN [run |-> "done", t0 |-> now, t1 |-> now]
                                  ELSE Begun])
    \/ Race(SweepCompute, obs)
    \/ Race(SweepUpdate,
            IF job'.pc = "idle"
            THEN [obs EXCEPT !.sw.run = "done", !.sw.t1 = now]
            ELSE obs)
    \/ Race(TickShort, obs)
    \/ Race(TickLong, obs)

SpecRace == RaceInit /\ [][RaceNext]_vars

\* The operations run alone, as one step.
HeartbeatAlone(row, t) == SetColumns(row, HeartbeatColumns(row, t))

StatusAlone(row, status, t) ==
    SetColumns(row, IF status = "ended" THEN EndColumns(row, t)
                    ELSE PauseColumns(row, t))

SweepAlone(row, t) ==
    IF SweepSelects(row, t) THEN SetColumns(row, AutoPauseColumns(row, t)) ELSE row

During(op) == {t \in Times : op.t0 <= t /\ t <= op.t1}

\* C4: when a heartbeat and a pause of the same playing project have run
\* concurrently, and nothing else has, the row is what one of the two serial
\* orders leaves (each operation reading the clock once while it ran, the
\* first before the second), with status paused and started_at NULL.
HeartbeatPauseSerial ==
    (/\ obs.hb.run = "done"
     /\ obs.st.run = "done"
     /\ obs.status = "paused"
     /\ obs.sw.run = "no") =>
        /\ projects[Session].status = "paused"
        /\ projects[Session].started_at = NULL
        /\ \E th \in During(obs.hb), tp \in During(obs.st) :
              \/ /\ th <= tp
                 /\ projects[Session] =
                       StatusAlone(HeartbeatAlone(obs.row, th), "paused", tp)
              \/ /\ tp <= th
                 /\ projects[Session] =
                       HeartbeatAlone(StatusAlone(obs.row, "paused", tp), th)

\* C5: when the sweep and one user action on the project (a heartbeat, a
\* pause or an end) have run concurrently, and nothing else has, the row is
\* what one of the two serial orders leaves.
SweepUserSerial ==
    /\ (obs.sw.run = "done" /\ obs.hb.run = "done" /\ obs.st.run = "no") =>
          \E ts \in During(obs.sw), th \in During(obs.hb) :
              \/ /\ ts <= th
                 /\ projects[Session] = HeartbeatAlone(SweepAlone(obs.row, ts), th)
              \/ /\ th <= ts
                 /\ projects[Session] = SweepAlone(HeartbeatAlone(obs.row, th), ts)
    /\ (obs.sw.run = "done" /\ obs.st.run = "done" /\ obs.hb.run = "no") =>
          \E ts \in During(obs.sw), tu \in During(obs.st) :
              \/ /\ ts <= tu
                 /\ projects[Session] =
                       StatusAlone(SweepAlone(obs.row, ts), obs.status, tu)
              \/ /\ tu <= ts
                 /\ projects[Session] =
                       SweepAlone(StatusAlone(obs.row, obs.status, tu), ts)

----------------------------------------------------------------------------
\* The sweep's eligibility rule.

\* C11: a sweep's UPDATE changes a project only if the project is playing and
\* has been inactive for more than the threshold, the inactivity counted from
\* last_activity, or from started_at when last_activity is NULL.
SweepPausesOnlyInactive ==
    [][\A i \in DOMAIN projects :
          (job.pc = "sw_update" /\ projects'[i] # projects[i]) =>
              LET row == projects[i]
                  reference == IF row.last_activity # NULL
                               THEN row.last_activity ELSE row.started_at
              IN  /\ row.status = "playing"
                  /\ now - reference > ThresholdMs]_vars

----------------------------------------------------------------------------
\* The job alone, with a store that may throw: every user has one project,
\* played at instant 0 and since then inactive (with or without a heartbeat
\* at instant 0); the job runs again and again, each of its queries
\* succeeding or throwing, and the clock advances.
\*
\* obs records the ids the last run selected, the ids whose UPDATE threw in
\* that run, and whether any run so far ended in the catch.

PlayedBy(u, beat) ==
    SetColumns(NewProject(NameOf(u), u),
               IF beat THEN PlayColumns(0) @@ [last_activity |-> 0]
               ELSE PlayColumns(0))

JobInit ==
    /\ now = 0
    /\ tracks = NoTracks
    /\ \E beats \in [Users -> BOOLEAN] :
          projects = [u \in Users |-> PlayedBy(u, beats[u])]
    /\ req = [s \in Slots |-> Idle]
    /\ job = Idle
    /\ obs = [selected |-> {}, threw |-> {}, caught |-> FALSE]

JobSelect ==
    /\ SweepSelect
    /\ obs' = [obs EXCEPT !.threw = {},
                          !.selected = IF job'.pc = "idle" THEN {}
                                       ELSE {p.id : p \in job'.rows}]

JobSelectThrows ==
    /\ SweepSelectThrows
    /\ obs' = [obs EXCEPT !.selected = {}, !.threw = {}, !.caught = TRUE]

JobCompute == SweepCompute /\ UNCHANGED obs

JobUpdate == SweepUpdate /\ UNCHANGED obs

JobUpdateThrows ==
    /\ SweepUpdateThrows
    /\ obs' = [obs EXCEPT !.threw = {job.upd.id}, !.caught = TRUE]

JobTickShort == TickShort /\ UNCHANGED obs

JobTickLong == TickLong /\ UNCHANGED obs

JobNext ==
    \/ JobSelect
    \/ JobSelectThrows
    \/ JobCompute
    \/ JobUpdate
    \/ JobUpdateThrows
    \/ JobTickShort
    \/ JobTickLong

SpecJob == JobInit /\ [][JobNext]_vars

\* The timer keeps firing and the store eventually accepts each query.
SpecJobFair ==
    /\ SpecJob
    /\ SF_vars(JobSelect)
    /\ WF_vars(JobCompute)
    /\ SF_vars(JobUpdate)

\* C12: when a run of the sweep is over, every project it selected, other
\* than one whose UPDATE threw, is paused.
SweepContinuesOnError ==
    job.pc = "idle" =>
        \A i \in obs.selected \ obs.threw : projects[i].status = "paused"

\* C13: once the job runs, a playing project inactive for more than the
\* threshold is eventually paused with auto_paused TRUE and started_at NULL,
\* whatever runs ended in the catch before.
StaleEventuallyAutoPaused ==
    \A i \in Users :
        (/\ projects[i].status = "playing"
         /\ now - (IF projects[i].last_activity # NULL
                   THEN projects[i].last_activity
                   ELSE projects[i].started_at) > ThresholdMs)
        ~> (/\ projects[i].status = "paused"
            /\ projects[i].auto_paused
            /\ projects[i].started_at = NULL)

\* C13's case: a run ended in the catch while a project with a heartbeat was
\* stale, and a later run paused that project.
PausedAfterFailedSweep ==
    /\ obs.caught
    /\ \E i \in DOMAIN projects :
          /\ projects[i].last_activity # NULL
          /\ now - projects[i].last_activity > ThresholdMs
          /\ projects[i].status = "paused"
          /\ projects[i].auto_paused
          /\ projects[i].elapsed_seconds > 0

----------------------------------------------------------------------------
\* The auto_paused flag.

\* C14: an explicit pause leaves auto_paused FALSE, also on a project that an
\* auto-pause had paused; a play leaves it FALSE; an auto-pause, by the sweep
\* or by getActive, leaves it TRUE.
AutoPausedIsLastPause ==
    [][/\ \A s \in Slots :
             (/\ req[s].pc = "st_update"
              /\ req'[s].pc = "st_updated"
              /\ req[s].status \in {"paused", "playing"}) =>
                 ~projects'[req[s].id].auto_paused
       /\ \A s \in Slots :
             (req[s].pc = "ga_update" /\ req'[s] # req[s]) =>
                 projects'[req[s].upd.id].auto_paused
       /\ (job.pc = "sw_update" /\ job' # job) =>
             projects'[job.upd.id].auto_paused]_vars

----------------------------------------------------------------------------
\* Requests that must be rejected: status changes and heartbeats by any user
\* on any id, existing or not, with any status value, one request at a time.
\*
\* obs records the number of requests so far (ops), the last request's inputs
\* (call), the table as it was when the request arrived (pre) and the error
\* it answered with (err).

AnyIds == 1..(MaxProjects + 1)

NoCall == [op |-> "none", user |-> 0, id |-> 0, status |-> "none"]

RejInit ==
    /\ now = 0
    /\ tracks = NoTracks
    /\ projects = InitialProjects
    /\ req = [s \in Slots |-> Idle]
    /\ job = Idle
    /\ obs = [ops |-> 0, call |-> NoCall, pre |-> projects, err |-> "none"]

RejNext ==
    \/ \E u \in Users, i \in AnyIds, status \in StatusInputs :
          /\ AllIdle
          /\ obs.ops < RejMaxOps
          /\ StatusSelectProject(1, u, i, status)
          /\ obs' = [ops |-> obs.ops + 1,
                     call |-> [op |-> "status", user |-> u, id |-> i, status |-> status],
                     pre |-> projects,
                     err |-> StatusError(projects, u, i, status)]
    \/ Continued(StatusSelectOthers(1))
    \/ Continued(StatusComputeOther(1))
    \/ Continued(StatusUpdateOther(1))
    \/ Continued(StatusComputePlaying(1))
    \/ Continued(StatusComputePaused(1))
    \/ Continued(StatusComputeEnded(1))
    \/ Continued(StatusUpdate(1))
    \/ Continued(StatusSelectUpdated(1))
    \/ \E u \in Users, i \in AnyIds :
          /\ AllIdle
          /\ obs.ops < RejMaxOps
          /\ HeartbeatSelectProject(1, u, i)
          /\ obs' = [ops |-> obs.ops + 1,
                     call |-> [op |-> "heartbeat", user |-> u, id |-> i, status |-> "none"],
                     pre |-> projects,
                     err |-> HeartbeatError(projects, u, i)]
    \/ Continued(HeartbeatCompute(1))
    \/ Continued(HeartbeatUpdate(1))
    \/ Continued(HeartbeatSelectUpdated(1))
    \/ Continued(TickShort)
    \/ Continued(TickLong)

SpecReject == RejInit /\ [][RejNext]_vars

\* C15: a status change on an id that does not exist or belongs to another
\* user, a status change to a value other than playing, paused and ended, and
\* a heartbeat on a project of another user, answer with an error, are over
\* at once, and leave every row of the table as it was.
RejectedChangesNothing ==
    LET c == obs.call
        foreign == c.id \notin DOMAIN obs.pre \/ obs.pre[c.id].user_id # c.user
        invalid == c.status \notin {"playing", "paused", "ended"}
    IN  ((c.op = "status" /\ (foreign \/ invalid)) \/ (c.op = "heartbeat" /\ foreign)) =>
            /\ obs.err \in {"Invalid status", "Project not found"}
            /\ req[1].pc = "idle"
            /\ projects = obs.pre

\* C15's case: a play on an id that is not the requester's was rejected while
\* the requester had a project playing.
RejectedPlayWhilePlaying ==
    /\ obs.call.op = "status"
    /\ obs.call.status = "playing"
    /\ obs.err = "Project not found"
    /\ \E j \in DOMAIN projects :
          projects[j].user_id = obs.call.user /\ projects[j].status = "playing"

----------------------------------------------------------------------------
\* Waypoints: the owner of the first project changes its status, the job
\* sweeps, any user creates a waypoint on any project id, one operation at a
\* time, and the clock advances.
\*
\* obs records the number of operations so far (ops), whether the last one
\* was a waypoint creation (last), and for a waypoint creation the user who
\* asked for it (user), the project id it named (id), whether the name was taken (taken), the instant (at)
\* and the table as it was before (pre).

NoWaypoint ==
    [last |-> "other", user |-> 0, id |-> 0, taken |-> FALSE, at |-> 0, pre |-> <<>>]

WpInit ==
    /\ now = 0
    /\ tracks = NoTracks
    /\ projects = InitialProjects
    /\ req = [s \in Slots |-> Idle]
    /\ job = Idle
    /\ obs = [ops |-> 0] @@ NoWaypoint

WpStarted(A) ==
    /\ AllIdle
    /\ obs.ops < WpMaxOps
    /\ A
    /\ obs' = [ops |-> obs.ops + 1] @@ NoWaypoint

WpNext ==
    \/ \E status \in ValidStatus : WpStarted(StatusSelectProject(1, Owner, Session, status))
    \/ Continued(StatusSelectOthers(1))
    \/ Continued(StatusComputePlaying(1))
    \/ Continued(StatusComputePaused(1))
    \/ Continued(StatusComputeEnded(1))
    \/ Continued(StatusUpdate(1))
    \/ Continued(StatusSelectUpdated(1))
    \/ WpStarted(SweepSelect)
    \/ Continued(SweepCompute)
    \/ Continued(SweepUpdate)
    \/ \E u \in Users, i \in AnyIds, nameTaken \in BOOLEAN :
          /\ AllIdle
          /\ obs.ops < WpMaxOps
          /\ WaypointCreate(u, i, nameTaken)
          /\ obs' = [ops |-> obs.ops + 1, last |-> "waypoint", user |-> u, id |-> i,
                     taken |-> nameTaken, at |-> now, pre |-> projects]
    \/ Continued(TickShort)
    \/ Continued(TickLong)

SpecWaypoint == WpInit /\ [][WpNext]_vars

\* C16: a waypoint created with a project id leaves that project with
\* last_activity at the instant of the creation and auto_paused FALSE, and
\* with the status, started_at and elapsed_seconds it had; no other row
\* changes.
WaypointTouchesActivityOnly ==
    (obs.last = "waypoint" /\ ~obs.taken /\ obs.id \in DOMAIN obs.pre) =>
        /\ projects[obs.id].last_activity = obs.at
        /\ projects[obs.id].auto_paused = FALSE
        /\ projects[obs.id].status = obs.pre[obs.id].status
        /\ projects[obs.id].started_at = obs.pre[obs.id].started_at
        /\ projects[obs.id].elapsed_seconds = obs.pre[obs.id].elapsed_seconds
        /\ \A j \in DOMAIN projects : j # obs.id => projects[j] = obs.pre[j]

\* C16's case: a waypoint created, later than instant 0, on a project that an
\* auto-pause had paused.
WaypointOnAutoPaused ==
    /\ obs.last = "waypoint"
    /\ ~obs.taken
    /\ obs.id \in DOMAIN obs.pre
    /\ obs.pre[obs.id].status = "paused"
    /\ obs.pre[obs.id].auto_paused
    /\ obs.at > 0
    /\ projects[obs.id].status = "paused"

\* C17: an operation asked for by one user leaves the projects of every
\* other user as they were; here, a waypoint creation.
WaypointLeavesOthersProjects ==
    obs.last = "waypoint" =>
        \A j \in DOMAIN obs.pre :
            obs.pre[j].user_id # obs.user => projects[j] = obs.pre[j]

----------------------------------------------------------------------------
\* GPS tracking, concurrently: any user starts a track, appends a batch or
\* ends the track on the first project, the requests' steps interleaved, and
\* the clock advances.
\*
\* obs records the number of requests so far (ops) and, for the append each
\* slot ran last, the size of its batch (size), the rows it put into
\* track_points (added), the amount it added to point_count (counted) and
\* whether it is over (done).

NoAppend == [size |-> 0, added |-> 0, counted |-> 0, done |-> FALSE]

RECURSIVE SumOfCounts(_)
SumOfCounts(table) ==
    IF table = <<>> THEN 0 ELSE Head(table).point_count + SumOfCounts(Tail(table))

TrInit ==
    /\ now = 0
    /\ tracks = NoTracks
    /\ projects = InitialProjects
    /\ req = [s \in Slots |-> Idle]
    /\ job = Idle
    /\ obs = [ops |-> 0, append |-> [s \in Slots |-> NoAppend]]

TrStarted(A) ==
    /\ obs.ops < TrMaxOps
    /\ A
    /\ obs' = [obs EXCEPT !.ops = @ + 1]

TrAppendStarted(s, A, batch) ==
    /\ obs.ops < TrMaxOps
    /\ A
    /\ obs' = [obs EXCEPT !.ops = @ + 1,
                          !.append[s] = [size |-> Len(batch.points), added |-> 0,
                                         counted |-> 0, done |-> req'[s].pc = "idle"]]

TrAppended(s, A) ==
    /\ A
    /\ obs' = [obs EXCEPT
                  !.append[s].added = @ + Len(tracks'.points) - Len(tracks.points),
                  !.append[s].counted =
                      @ + SumOfCounts(tracks'.summary) - SumOfCounts(tracks.summary),
                  !.append[s].done = req'[s].pc = "idle"]

TrNext ==
    \/ \E s \in Slots, u \in Users, i \in {Session} : TrStarted(StartSelectProject(s, u, i))
    \/ \E s \in Slots : Continued(StartDeactivate(s))
    \/ \E s \in Slots : Continued(StartInsert(s))
    \/ \E s \in Slots, u \in Users, i \in {Session}, batch \in BatchInputs :
          TrAppendStarted(s, AppendCheck(s, u, i, batch), batch)
    \/ \E s \in Slots : TrAppended(s, AppendWrite(s))
    \/ \E s \in Slots, u \in Users, i \in {Session} : TrStarted(EndCall(s, u, i))
    \/ \E s \in Slots : Continued(EndQueries(s))
    \/ Continued(TickShort)
    \/ Continued(TickLong)

SpecTrack == TrInit /\ [][TrNext]_vars

\* C18: no project and user have two active summaries.
AtMostOneActive ==
    \A i \in ProjectIds, u \in Users :
        Cardinality(ActiveIds(tracks.summary, i, u)) <= 1

----------------------------------------------------------------------------
\* GPS tracking, one request at a time.
\*
\* obs records the number of requests so far (ops), the last request's
\* inputs (call) and the tables as they were when it arrived (pre).

NoTrackCall ==
    [op |-> "none", user |-> 0, id |-> 0, batch |-> [given |-> FALSE, points |-> <<>>]]

TsInit ==
    /\ now = 0
    /\ tracks = NoTracks
    /\ projects = InitialProjects
    /\ req = [s \in Slots |-> Idle]
    /\ job = Idle
    /\ obs = [ops |-> 0, call |-> NoTrackCall, pre |-> NoTracks]

TsStarted(A, op, u, i, batch) ==
    /\ AllIdle
    /\ obs.ops < TrMaxOps
    /\ A
    /\ obs' = [ops |-> obs.ops + 1, pre |-> tracks,
               call |-> [op |-> op, user |-> u, id |-> i, batch |-> batch]]

TsNext ==
    \/ \E u \in Users, i \in ProjectIds :
          TsStarted(StartSelectProject(1, u, i), "start", u, i, NoTrackCall.batch)
    \/ Continued(StartDeactivate(1))
    \/ Continued(StartInsert(1))
    \/ \E u \in Users, i \in ProjectIds, batch \in BatchInputs :
          TsStarted(AppendCheck(1, u, i, batch), "append", u, i, batch)
    \/ Continued(AppendWrite(1))
    \/ \E u \in Users, i \in ProjectIds :
          TsStarted(EndCall(1, u, i), "end", u, i, NoTrackCall.batch)
    \/ Continued(EndQueries(1))
    \/ Continued(TickShort)
    \/ Continued(TickLong)

SpecTrackSeq == TsInit /\ [][TsNext]_vars

\* C19: an append with a missing or empty list of points is answered with
\* 400; an append or an end for a project and user with no active summary is
\* answered with 404; none of them changes a summary or persists a point.
NoActiveTrackFailsCleanly ==
    LET c == obs.call
        none == \A k \in DOMAIN obs.pre.summary :
                    ~(/\ obs.pre.summary[k].project_id = c.id
                      /\ obs.pre.summary[k].user_id = c.user
                      /\ obs.pre.summary[k].is_active)
        empty == ~c.batch.given \/ Len(c.batch.points) = 0
    IN  /\ (c.op = "append" /\ empty) =>
              tracks = obs.pre /\ req[1].pc = "idle" /\ req[1].res = 400
        /\ (c.op = "append" /\ ~empty /\ none) =>
              tracks = obs.pre /\ req[1].pc = "idle" /\ req[1].res = 404
        /\ (c.op = "end" /\ none) =>
              tracks = obs.pre /\ (req[1].pc = "idle" => req[1].res = 404)

\* C21: the rows an append gives to the store carry, as track_id, the id of
\* the summary that is active for the project and user.
PointsCarryTrackId ==
    req[1].pc = "tp_insert" =>
        LET rows == BatchRows(req[1].id, req[1].user, req[1].points, now)
        IN  \A k \in DOMAIN rows :
                rows[k].track_id \in ActiveIds(tracks.summary, req[1].id, req[1].user)

----------------------------------------------------------------------------
\* One track after another: the owner of one project starts tracks, appends
\* batches and ends tracks, one request at a time; the clock stands while a
\* request is served.
\*
\* obs records the number of requests so far (ops), the kind of the last one
\* (op), the points of the batches that were appended, in order and with the
\* instant of the append, since the last start while a summary was active
\* (appended), and the summary that was active when the last end arrived
\* (seg, 0 if none).

SgMaxOps == 4

ActiveOrNone(table, project, user) ==
    IF ActiveIds(table, project, user) = {} THEN 0
    ELSE CHOOSE k \in ActiveIds(table, project, user) : TRUE

SgInit ==
    /\ now = 0
    /\ tracks = NoTracks
    /\ projects = InitialProjects
    /\ req = [s \in Slots |-> Idle]
    /\ job = Idle
    /\ obs = [ops |-> 0, op |-> "none", appended |-> <<>>, seg |-> 0]

SgStarted(A, op) ==
    /\ AllIdle
    /\ obs.ops < SgMaxOps
    /\ A
    /\ obs' = [ops |-> obs.ops + 1, op |-> op,
               appended |-> IF op = "start" THEN <<>> ELSE obs.appended,
               seg |-> IF op = "end"
                       THEN ActiveOrNone(tracks.summary, Session, Owner)
                       ELSE 0]

SgAppendStarted(batch) ==
    /\ AllIdle
    /\ obs.ops < SgMaxOps
    /\ AppendCheck(1, Owner, Session, batch)
    /\ obs' = [ops |-> obs.ops + 1, op |-> "append", seg |-> 0,
               appended |->
                   IF req'[1].pc = "tp_insert"
                   THEN obs.appended \o
                        [k \in DOMAIN batch.points |->
                            [location |-> batch.points[k], recorded_at |-> now]]
                   ELSE obs.appended]

SgNext ==
    \/ SgStarted(StartSelectProject(1, Owner, Session), "start")
    \/ Continued(StartDeactivate(1))
    \/ Continued(StartInsert(1))
    \/ \E batch \in BatchInputs : SgAppendStarted(batch)
    \/ Continued(AppendWrite(1))
    \/ SgStarted(EndCall(1, Owner, Session), "end")
    \/ Continued(EndQueries(1))
    \/ Continued(AllIdle /\ TickShort)
    \/ Continued(AllIdle /\ TickLong)

SpecSegment == SgInit /\ [][SgNext]_vars

\* max - min of the instants of the points, in whole seconds
SpanSeconds(points) ==
    IF Len(points) < 2 THEN 0
    ELSE (points[Len(points)].recorded_at - points[1].recorded_at) \div MsPerSecond

\* C22: once the end of a track is answered, the summary holds as
\* total_duration the whole seconds between the first and the last of the
\* points appended to it (0 with fewer than two), and as point_count their
\* number.
SegmentDuration ==
    (obs.op = "end" /\ obs.seg # 0 /\ req[1].pc = "idle") =>
        /\ tracks.summary[obs.seg].total_duration = SpanSeconds(obs.appended)
        /\ tracks.summary[obs.seg].point_count = Len(obs.appended)

\* C23: once the end of a track is answered, the summary holds as
\* total_distance the sum of the distances between the consecutive points
\* appended to it, and nothing for the way from the track before.
SegmentDistance ==
    (obs.op = "end" /\ obs.seg # 0 /\ req[1].pc = "idle") =>
        tracks.summary[obs.seg].total_distance = PathLength(obs.appended)

\* C24: no user holds two projects whose names are equal once trimmed and
\* put in lower case.
NamesUniquePerUser ==
    \A i, j \in DOMAIN projects :
        (/\ i # j
         /\ projects[i].user_id = projects[j].user_id)
        => ToLowerCase(Trim(projects[i].name)) # ToLowerCase(Trim(projects[j].name))

\* C25: when the UPDATE of a setProjectStatus(ended) has run, the project is
\* ended with started_at null; if it was playing, elapsed_seconds is what it
\* was plus the whole seconds from started_at to the instant the handler read
\* the clock, and if it was paused, elapsed_seconds is what it was.
EndedBanksSegment ==
    (req[1].pc = "st_updated" /\ req[1].status = "ended") =>
        LET was == obs.pre[req[1].id]
            row == projects[req[1].id]
        IN  /\ row.status = "ended"
            /\ row.started_at = NULL
            /\ was.status = "playing" =>
                  \E t \in Times :
                      /\ obs.t0 <= t /\ t <= now
                      /\ row.elapsed_seconds =
                            was.elapsed_seconds + ((t - was.started_at) \div MsPerSecond)
            /\ was.status = "paused" => row.elapsed_seconds = was.elapsed_seconds

\* C25's case: a project that had played for a second or more has been ended.
EndedWhilePlaying ==
    /\ req[1].pc = "st_updated"
    /\ req[1].status = "ended"
    /\ obs.pre[req[1].id].status = "playing"
    /\ projects[req[1].id].elapsed_seconds > obs.pre[req[1].id].elapsed_seconds

----------------------------------------------------------------------------
\* The export, one request at a time, over every content of track_points of
\* up to MaxPoints rows drawn from a few rows: of the user and project asked
\* for or of others, with and without elevation and accuracy, stored in and
\* out of the order of recorded_at, two of them with the same recorded_at.
\*
\* obs records the user and the project of the last export.

MaxPoints == 3

StoredPoint(project, user, lng, lat, accuracy, elevation, t) ==
    [project_id |-> project, user_id |-> user, location |-> [x |-> lng, y |-> lat],
     accuracy |-> accuracy, elevation |-> elevation, recorded_at |-> t,
     track_id |-> NULL]

AnotherUser == CHOOSE u \in Users : u # Owner

AnotherProject == CHOOSE i \in ProjectIds : i # Session

PointInputs ==
    { StoredPoint(Session, Owner, 1, 2, NULL, NULL, TickMs),
      StoredPoint(Session, Owner, 3, 4, 5, 6, 0),
      StoredPoint(Session, Owner, 5, 6, 7, NULL, TickMs),
      StoredPoint(Session, AnotherUser, 7, 8, 9, 10, 0),
      StoredPoint(AnotherProject, Owner, 9, 10, NULL, 11, TickMs) }

GxInit ==
    /\ now = 0
    /\ \E n \in 0..MaxPoints : \E points \in [1..n -> PointInputs] :
          tracks = [summary |-> <<>>, points |-> points]
    /\ projects = InitialProjects
    /\ req = [s \in Slots |-> Idle]
    /\ job = Idle
    /\ obs = [user |-> 0, id |-> 0]

GxStarted(A, u, i) == A /\ obs' = [user |-> u, id |-> i]

GxNext ==
    \/ \E u \in Users, i \in AnyIds : GxStarted(ExportSelectPoints(1, u, i), u, i)
    \/ Continued(ExportSelectProject(1))
    \/ Continued(ExportRespond(1))

SpecGpx == GxInit /\ [][GxNext]_vars

\* Reading a document back: the lines with a tag, the end of the element that
\* opens at line j, and the point that the <trkpt> at line j describes.
LinesOf(body, tag) == {j \in DOMAIN body : body[j][1] = tag}

CloseOf(body, j) ==
    CHOOSE k \in LinesOf(body, "/trkpt") :
        k > j /\ \A m \in LinesOf(body, "/trkpt") : m > j => k <= m

ChildOf(body, j, tag) ==
    IF \E k \in LinesOf(body, tag) : j < k /\ k < CloseOf(body, j)
    THEN body[CHOOSE k \in LinesOf(body, tag) : j < k /\ k < CloseOf(body, j)][2]
    ELSE NULL

TrkptOf(body, j) ==
    [lat |-> body[j][2], lng |-> body[j][3], elevation |-> ChildOf(body, j, "ele"),
     accuracy |-> ChildOf(body, j, "hdop"), recorded_at |-> ChildOf(body, j, "time")]

\* C26: an export of a project for a user with no stored point is answered
\* 404; otherwise the document has one <trk> with one <trkseg>, and in it one
\* <trkpt> for each stored point of the project and user, with its lat and
\* lon, its elevation as <ele> and its accuracy as <hdop> when it has them,
\* in ascending order of recorded_at.
GpxListsEveryPoint ==
    (obs.id # 0 /\ req[1].pc = "idle") =>
        LET mine == PointsOf(tracks.points, obs.id, obs.user)
        IN  IF mine = <<>> THEN req[1].res = 404
            ELSE /\ req[1].res = 200
                 /\ LET body == req[1].body
                        at == LinesOf(body, "trkpt")
                    IN  /\ \A tag \in {"trk", "trkseg", "/trkseg", "/trk"} :
                              Cardinality(LinesOf(body, tag)) = 1
                        /\ \A j \in at, a \in LinesOf(body, "trk"),
                              b \in LinesOf(body, "trkseg"),
                              c \in LinesOf(body, "/trkseg"),
                              d \in LinesOf(body, "/trk") :
                              a < b /\ b < j /\ CloseOf(body, j) < c /\ c < d
                        /\ \E f \in [at -> DOMAIN mine] :
                              /\ \A j, k \in at : f[j] = f[k] => j = k
                              /\ \A k \in DOMAIN mine : \E j \in at : f[j] = k
                              /\ \A j \in at : TrkptOf(body, j) = GpxColumns(mine[f[j]])
                        /\ \A j, k \in at :
                              j < k => TrkptOf(body, j).recorded_at
                                          <= TrkptOf(body, k).recorded_at

\* C26's case: a document was sent for points that are stored out of the
\* order of recorded_at, one with an elevation and one without.
ExportedOutOfStoredOrder ==
    /\ obs.id # 0
    /\ req[1].pc = "idle"
    /\ req[1].res = 200
    /\ LET mine == PointsOf(tracks.points, obs.id, obs.user)
       IN  /\ Len(mine) >= 2
           /\ mine[1].recorded_at > mine[2].recorded_at
           /\ \E k \in DOMAIN mine : mine[k].elevation = NULL
           /\ \E k \in DOMAIN mine : mine[k].elevation # NULL

\* C27: at every instant, GET /active finds a playing project inactive
\* exactly when the sweep's SELECT at that instant would return it.
SameEligibility ==
    \A i \in DOMAIN projects :
        projects[i].status = "playing" =>
            (ActiveStale(projects[i], now) <=> SweepSelects(projects[i], now))

\* C28: when the UPDATE of a heartbeat on a project that was paused or
\* ended has run, the project's row is what it was but for last_activity,
\* which is the instant the handler read the clock.
IdleHeartbeatTouchesActivityOnly ==
    (req[1].pc = "hb_updated" /\ obs.pre[req[1].id].status # "playing") =>
        \E t \in Times :
            /\ obs.t0 <= t /\ t <= now
            /\ projects = [obs.pre EXCEPT ![req[1].id].last_activity = t]

\* C28's case: a heartbeat has been written to an ended project that had
\* played for a second or more.
HeartbeatOnEnded ==
    /\ req[1].pc = "hb_updated"
    /\ obs.pre[req[1].id].status = "ended"
    /\ obs.pre[req[1].id].elapsed_seconds > 0
    /\ projects[req[1].id].last_activity # obs.pre[req[1].id].last_activity

----------------------------------------------------------------------------
\* One project and its owner's status requests and heartbeats, in any order
\* and one at a time; the clock stands while a request is served.
\*
\* obs records the number of requests so far (ops), the milliseconds during
\* which the project's status was playing (playing), and whether every request
\* arrived at a whole second (whole).

OwMaxOps == 3

OwInit ==
    /\ now = 0
    /\ tracks = NoTracks
    /\ projects = InitialProjects
    /\ req = [s \in Slots |-> Idle]
    /\ job = Idle
    /\ obs = [ops |-> 0, playing |-> 0, whole |-> TRUE]

OwStarted(A) ==
    /\ AllIdle
    /\ obs.ops < OwMaxOps
    /\ A
    /\ obs' = [obs EXCEPT !.ops = @ + 1, !.whole = @ /\ IsWhole(now)]

OwTick(A) ==
    /\ AllIdle
    /\ A
    /\ obs' = [obs EXCEPT !.playing = IF projects[Session].status = "playing"
                                      THEN @ + (now' - now)
                                      ELSE @]

OwNext ==
    \/ \E status \in ValidStatus :
          OwStarted(StatusSelectProject(1, Owner, Session, status))
    \/ Continued(StatusSelectOthers(1))
    \/ Continued(StatusComputePlaying(1))
    \/ Continued(StatusComputePaused(1))
    \/ Continued(StatusComputeEnded(1))
    \/ Continued(StatusUpdate(1))
    \/ Continued(StatusSelectUpdated(1))
    \/ OwStarted(HeartbeatSelectProject(1, Owner, Session))
    \/ Continued(HeartbeatCompute(1))
    \/ Continued(HeartbeatUpdate(1))
    \/ Continued(HeartbeatSelectUpdated(1))
    \/ OwTick(TickShort)
    \/ OwTick(TickLong)

SpecOwner == OwInit /\ [][OwNext]_vars

\* C29: between requests that all arrived at whole seconds, a paused or ended
\* project's elapsed_seconds is the time during which its status was playing.
ElapsedIsTimePlaying ==
    (/\ AllIdle
     /\ obs.whole
     /\ projects[Session].status \in {"paused", "ended"})
    => projects[Session].elapsed_seconds * MsPerSecond = obs.playing

----------------------------------------------------------------------------
\* One project between its owner and the auto-pause: the owner plays and
\* pauses it, sends heartbeats and asks for the active project, the job
\* sweeps, one operation at a time, and the clock advances.
\*
\* obs records the number of operations so far (ops), the instant of the
\* last setProjectStatus(playing) (played, NULL if none), and the instant at
\* which the project was auto-paused since then (auto, NULL if it was not).

RsMaxOps == 3

RsInit ==
    /\ now = 0
    /\ tracks = NoTracks
    /\ projects = InitialProjects
    /\ req = [s \in Slots |-> Idle]
    /\ job = Idle
    /\ obs = [ops |-> 0, played |-> NULL, auto |-> NULL]

RsStarted(A) ==
    /\ AllIdle
    /\ obs.ops < RsMaxOps
    /\ A
    /\ obs' = [obs EXCEPT !.ops = @ + 1]

\* The UPDATE of a status request
RsStatusUpdated(A) ==
    /\ A
    /\ obs' = IF req[1].status = "playing"
              THEN [obs EXCEPT !.played = projects'[Session].started_at, !.auto = NULL]
              ELSE obs

\* The UPDATE of the sweep or of GET /active
RsAutoPaused(A) ==
    /\ A
    /\ obs' = IF projects'[Session].auto_paused /\ ~projects[Session].auto_paused
              THEN [obs EXCEPT !.auto = now]
              ELSE obs

RsNext ==
    \/ \E status \in {"playing", "paused"} :
          RsStarted(StatusSelectProject(1, Owner, Session, status))
    \/ Continued(StatusSelectOthers(1))
    \/ Continued(StatusComputePlaying(1))
    \/ Continued(StatusComputePaused(1))
    \/ RsStatusUpdated(StatusUpdate(1))
    \/ Continued(StatusSelectUpdated(1))
    \/ RsStarted(HeartbeatSelectProject(1, Owner, Session))
    \/ Continued(HeartbeatCompute(1))
    \/ Continued(HeartbeatUpdate(1))
    \/ Continued(HeartbeatSelectUpdated(1))
    \/ RsStarted(ActiveSelectPlaying(1, Owner))
    \/ Continued(ActiveCheck(1))
    \/ RsAutoPaused(ActiveUpdate(1))
    \/ Continued(ActiveSelectWaypoints(1))
    \/ RsStarted(SweepSelect)
    \/ Continued(SweepCompute)
    \/ RsAutoPaused(SweepUpdate)
    \/ Continued(TickShort)
    \/ Continued(TickLong)

SpecResume == RsInit /\ [][RsNext]_vars

\* C30: a project is auto-paused no sooner than the inactivity threshold
\* after its last setProjectStatus(playing).
NoAutoPauseSoonAfterPlay ==
    (obs.played # NULL /\ obs.auto # NULL) => obs.auto - obs.played >= ThresholdMs

====
